---- MODULE Spec2Model ----
(***************************************************************************)
(* Model of the fluid-glass simulation component                           *)
(* (src/components/Simulation.tsx): the ping-pong frame loop (useFrame),   *)
(* the simulation fragment shader (SimulationShader) and the sampling      *)
(* coordinates of the display fragment shader (DisplayShader); and of the  *)
(* application around it (App): the hand-tracking loop (predict) that      *)
(* publishes HandStatus through React state.                               *)
(*                                                                         *)
(* GLSL floats are modelled as exact rationals <<n, d>> (d > 0, lowest     *)
(* terms).  The only irrational operation, sqrt, is exact when the root is *)
(* rational and is rounded down to SqrtScale-ths otherwise.                *)
(***************************************************************************)
EXTENDS Integers, Sequences, FiniteSets, TLC

\* ------------------------------------------------------------------ bounds
\* Side of the field grid.  The source uses 512 (FBO size and the shader's
\* texel constant); the model scales both down together.
GridN == 3
\* Number of simulation passes explored.
MaxTicks == 2
\* Number of frames explored in which useFrame returns early.
MaxSkipped == 1
\* Number of setHandStatus calls explored.
MaxPublished == 3

\* ------------------------------------------------- float arithmetic (exact)
Abs(a) == IF a < 0 THEN -a ELSE a

RECURSIVE GCD(_, _)
GCD(a, b) == IF b = 0 THEN a ELSE GCD(b, a % b)

\* The rational n/d in lowest terms with a positive denominator.
Rat(n, d) ==
    LET s == IF d < 0 THEN -1 ELSE 1
        g == GCD(Abs(n), Abs(d))
    IN  IF n = 0 THEN <<0, 1>> ELSE <<(s * n) \div g, (s * d) \div g>>

Zero == <<0, 1>>
One == <<1, 1>>

RNeg(a) == <<-a[1], a[2]>>

RAdd(a, b) ==
    LET g == GCD(a[2], b[2])
    IN  IF a[1] = 0 THEN b ELSE IF b[1] = 0 THEN a ELSE
        Rat(a[1] * (b[2] \div g) + b[1] * (a[2] \div g), (a[2] \div g) * b[2])

RSub(a, b) == RAdd(a, RNeg(b))

RMul(a, b) ==
    LET g1 == GCD(Abs(a[1]), b[2])
        g2 == GCD(Abs(b[1]), a[2])
    IN  IF a[1] = 0 \/ b[1] = 0 THEN Zero
        ELSE <<(a[1] \div g1) * (b[1] \div g2), (a[2] \div g2) * (b[2] \div g1)>>

\* a / b, b # 0
RDiv(a, b) ==
    RMul(a, IF b[1] < 0 THEN <<-b[2], -b[1]>> ELSE <<b[2], b[1]>>)

RAbs(a) == <<Abs(a[1]), a[2]>>

RSign(a) == IF a[1] > 0 THEN 1 ELSE IF a[1] < 0 THEN -1 ELSE 0

RLt(a, b) == RSign(RSub(a, b)) < 0
RLe(a, b) == RSign(RSub(a, b)) <= 0

RMin(a, b) == IF RLe(a, b) THEN a ELSE b
RMax(a, b) == IF RLe(a, b) THEN b ELSE a

\* floor(a) as an integer
RFloor(a) == a[1] \div a[2]

\* Largest k in lo..hi with k*k <= n (lo*lo <= n assumed).
RECURSIVE ISqrt(_, _, _)
ISqrt(n, lo, hi) ==
    IF lo >= hi THEN lo
    ELSE LET mid == (lo + hi + 1) \div 2
         IN  IF mid * mid <= n THEN ISqrt(n, mid, hi) ELSE ISqrt(n, lo, mid - 1)

\* Precision of an inexact square root: results are multiples of 1/SqrtScale.
SqrtScale == 100

\* floor(a * s) for a >= 0, without overflowing on a large denominator
FloorScaled(a, s) ==
    LET q == a[1] \div a[2]
        r == a[1] % a[2]
        k == (a[2] \div 1000000) + 1
    IN  q * s + (((r \div k) * s) \div ((a[2] + k - 1) \div k))

\* sqrt(a), a >= 0
Sqrt(a) ==
    LET rn == ISqrt(a[1], 0, 46340)
        rd == ISqrt(a[2], 0, 46340)
    IN  IF rn * rn = a[1] /\ rd * rd = a[2] THEN <<rn, rd>>
        ELSE Rat(ISqrt(FloorScaled(a, SqrtScale * SqrtScale), 0, 46340), SqrtScale)

\* ------------------------------------------------------- GLSL built-ins
\* clamp(x, lo, hi) = min(max(x, lo), hi)
clamp(x, lo, hi) == RMin(RMax(x, lo), hi)

\* mix(a, b, t) = a*(1-t) + b*t, written a + (b-a)*t (equal in exact arithmetic)
mix(a, b, t) == IF t = Zero \/ a = b THEN a ELSE RAdd(a, RMul(RSub(b, a), t))

\* distance(p, q) on vec2
distance(p, q) ==
    LET dx == RSub(p[1], q[1])
        dy == RSub(p[2], q[2])
    IN  Sqrt(RAdd(RMul(dx, dx), RMul(dy, dy)))

\* The Hermite expansion the GLSL specification gives for smoothstep.
Hermite(edge0, edge1, x) ==
    LET t == clamp(RDiv(RSub(x, edge0), RSub(edge1, edge0)), Zero, One)
    IN  RMul(RMul(t, t), RSub(<<3, 1>>, RMul(<<2, 1>>, t)))

\* --------------------------------------------------------------- state
VARIABLES
    fboA, fboB,          \* contents of the two 512x512 float render targets
    swap,                \* swap.current
    simMaterial,         \* simMaterial.current is set
    displayMaterial,     \* displayMaterial.current is set
    video,               \* the video prop is non-null
    videoTexture,        \* videoTexture.current is set
    handStatus, params,  \* props of the component
    uPrev, uMouse, uViscosity, uRippleStrength,   \* SimulationShader uniforms
    uTexture, uData, uRefraction, uDistortion,    \* DisplayShader uniforms
    simTarget,           \* render target bound while the simulation scene was drawn
    camSamples,          \* per observed display fragment, the uTexture coordinates it sampled
    ticks, skipped,      \* frames that ran the simulation pass / that returned early
    runStart, runLen,    \* field before, and length of, the current run of force-0 passes
    smoothstepImpl,      \* what this platform's smoothstep does when edge0 >= edge1
    loaded,              \* App: video.onloadeddata has run (the predict loop is started)
    pending,             \* App: setHandStatus updates queued by React, not yet rendered
    applied,             \* App: number of setHandStatus updates rendered into handStatus
    lastTick             \* at the last simulation pass: applied, and Len(pending)

vars == <<fboA, fboB, swap, simMaterial, displayMaterial, video, videoTexture,
          handStatus, params, uPrev, uMouse, uViscosity, uRippleStrength,
          uTexture, uData, uRefraction, uDistortion, simTarget, camSamples,
          ticks, skipped, runStart, runLen, smoothstepImpl,
          loaded, pending, applied, lastTick>>

\* ------------------------------------------------------------ the field
Idx == 0 .. (GridN - 1)
Cells == Idx \X Idx

\* vUv of the fragment that covers cell c of a GridN x GridN render target
CellUv(c) == <<Rat(2 * c[1] + 1, 2 * GridN), Rat(2 * c[2] + 1, 2 * GridN)>>

ZeroField == [c \in Cells |-> Zero]

ClampIdx(i) == IF i < 0 THEN 0 ELSE IF i > GridN - 1 THEN GridN - 1 ELSE i

\* texture2D(tex, uv).r for a render target created with LinearFilter and the
\* default ClampToEdge wrapping: bilinear interpolation of the four nearest texels.
texture2D(tex, uv) ==
    LET x == RSub(RMul(uv[1], <<GridN, 1>>), <<1, 2>>)
        y == RSub(RMul(uv[2], <<GridN, 1>>), <<1, 2>>)
        i0 == RFloor(x)
        j0 == RFloor(y)
        fx == RSub(x, <<i0, 1>>)
        fy == RSub(y, <<j0, 1>>)
        t(i, j) == tex[<<ClampIdx(i), ClampIdx(j)>>]
    IN  mix(mix(t(i0, j0), t(i0 + 1, j0), fx),
            mix(t(i0, j0 + 1), t(i0 + 1, j0 + 1), fx), fy)

\* ------------------------------------------------- SimulationShader
\* GLSL: "Results are undefined if edge0 >= edge1".  The shader calls
\* smoothstep(0.05, 0.0, d), so the value is whatever the platform computes.
\* Two readings of the GLSL definition are modelled: the Hermite expansion
\* evaluated as written, and the threshold wording (0 if x <= edge0, 1 if
\* x >= edge1), which agree only when edge0 < edge1.
SmoothstepImpls == {"hermite", "threshold"}

smoothstep(edge0, edge1, x) ==
    IF RLt(edge0, edge1) \/ smoothstepImpl = "hermite" THEN Hermite(edge0, edge1, x)
    ELSE IF RLe(x, edge0) THEN Zero
    ELSE IF RLe(edge1, x) THEN One
    ELSE Hermite(edge0, edge1, x)

\* vec2 texel = 1.0 / vec2(512.0, 512.0)
texel == <<Rat(1, GridN), Rat(1, GridN)>>

\* (top + bottom + left + right) * 0.25
Smoothed(prev, uv) ==
    LET top == texture2D(prev, <<uv[1], RAdd(uv[2], texel[2])>>)
        bottom == texture2D(prev, <<uv[1], RSub(uv[2], texel[2])>>)
        left == texture2D(prev, <<RSub(uv[1], texel[1]), uv[2]>>)
        right == texture2D(prev, <<RAdd(uv[1], texel[1]), uv[2]>>)
    IN  RMul(RAdd(RAdd(top, bottom), RAdd(left, right)), <<1, 4>>)

BrushRadius == <<1, 20>>

\* smoothstep(0.05, 0.0, d) * uMouse.z * uRippleStrength
Brush(uv, mouse, rippleStrength) ==
    LET d == distance(uv, <<mouse[1], mouse[2]>>)
    IN  RMul(RMul(smoothstep(BrushRadius, Zero, d), mouse[3]), rippleStrength)

\* Mutant: the decay is left out.
SimFragmentNoDecay(prev, uv, mouse, viscosity, rippleStrength) ==
    RAdd(Smoothed(prev, uv), Brush(uv, mouse, rippleStrength))

\* SimulationShader.fragmentShader main(): the value written to gl_FragColor
SimFragment(prev, uv, mouse, viscosity, rippleStrength) ==
    RMul(RAdd(Smoothed(prev, uv), Brush(uv, mouse, rippleStrength)), viscosity)

\* gl.render(sceneSim, cameraSim): one fragment per texel of the target
SimPass(prev, mouse, viscosity, rippleStrength) ==
    [c \in Cells |-> SimFragment(prev, CellUv(c), mouse, viscosity, rippleStrength)]

\* --------------------------------------------------- DisplayShader
\* Precision to which the display shader's height differences are taken.
HeightScale == 1000

Quant(a) == Rat(FloorScaled(a, HeightScale), HeightScale)

\* normalize(vec3(dx, dy, 1.0)).xy
normalize(dx, dy) ==
    LET len == Sqrt(RAdd(RAdd(RMul(dx, dx), RMul(dy, dy)), One))
    IN  <<RDiv(dx, len), RDiv(dy, len)>>

ClampLo == <<1, 1000>>
ClampHi == <<999, 1000>>
FringeOffset == <<2, 1000>>
FringeThreshold == <<1, 10>>
NormalOffset == <<1, 100>>

\* clamp(vUv - normal.xy * uRefraction * uDistortion, 0.001, 0.999)
DistortedUv(data, uv, refraction, distortion) ==
    LET height == texture2D(data, uv)
        hRight == texture2D(data, <<RAdd(uv[1], NormalOffset), uv[2]>>)
        hTop == texture2D(data, <<uv[1], RAdd(uv[2], NormalOffset)>>)
        normal == normalize(Quant(RSub(hRight, height)), Quant(RSub(hTop, height)))
        k == RMul(refraction, distortion)
    IN  <<clamp(RSub(uv[1], RMul(normal[1], k)), ClampLo, ClampHi),
          clamp(RSub(uv[2], RMul(normal[2], k)), ClampLo, ClampHi)>>

\* DisplayShader.fragmentShader main(): every coordinate at which the
\* fragment at uv calls texture2D(uTexture, .)
CameraSamples(data, uv, refraction, distortion) ==
    LET d == DistortedUv(data, uv, refraction, distortion)
    IN  {d} \cup
        (IF RLt(FringeThreshold, texture2D(data, uv))
         THEN {<<RAdd(d[1], FringeOffset), d[2]>>, <<RSub(d[1], FringeOffset), d[2]>>}
         ELSE {})

\* ----------------------------------------------------- props and inputs
Sentinel == <<-1, 1>>

\* HandStatus.position values offered to the component
Positions == {<<(<<1, 2>>), (<<1, 2>>)>>, <<(<<23, 120>>), (<<5, 6>>)>>}

\* App: useState<HandStatus>({detected: false, pinching: false, distance: 0,
\* position: {x: 0.5, y: 0.5}})
InitialHandStatus ==
    [detected |-> FALSE, pinching |-> FALSE, distance |-> Zero,
     position |-> <<(<<1, 2>>), (<<1, 2>>)>>]

\* HandStatus.distance values offered (the component never reads the field)
DepthProxies == {Zero}

HandStatuses ==
    [detected : BOOLEAN, pinching : BOOLEAN, distance : DepthProxies,
     position : Positions]

\* DEFAULT_PARAMS: viscosity 0.96, rippleStrength 0.6, refractionIndex 0.1,
\* distortionStrength 0.8
DEFAULT_PARAMS ==
    [viscosity |-> <<24, 25>>, rippleStrength |-> <<3, 5>>,
     refractionIndex |-> <<1, 10>>, distortionStrength |-> <<4, 5>>]

\* FluidParams values offered to the component (the sliders reach the others)
ParamSets ==
    {DEFAULT_PARAMS,
     [viscosity |-> <<1, 2>>, rippleStrength |-> One,
      refractionIndex |-> <<1, 2>>, distortionStrength |-> <<3, 1>>]}

\* vUv of the display fragments observed: the centre of the quad and the centres
\* of the first and last pixel of a row of a quad 1000 pixels wide
Pixels ==
    {<<(<<1, 2>>), (<<1, 2>>)>>, <<(<<1, 2000>>), (<<1, 6>>)>>, <<(<<1999, 2000>>), (<<1, 2>>)>>}

\* -------------------------------------------------------------- useFrame
\* const currentFBO = swap.current ? fboA : fboB
currentFBO(s) == IF s THEN "fboA" ELSE "fboB"

\* Mutant: the read source chosen like the render target.
prevFBOAliased(s) == IF s THEN "fboA" ELSE "fboB"

\* const prevFBO = swap.current ? fboB : fboA
prevFBO(s) == IF s THEN "fboB" ELSE "fboA"

\* const mouseX = handStatus.detected ? handStatus.position.x : -1
mouseX(h) == IF h.detected THEN h.position[1] ELSE Sentinel

\* Mutant: the vertical axis not inverted.
mouseYNoFlip(h) == IF h.detected THEN h.position[2] ELSE Sentinel

\* const mouseY = handStatus.detected ? (1.0 - handStatus.position.y) : -1
mouseY(h) == IF h.detected THEN RSub(One, h.position[2]) ELSE Sentinel

\* const force = handStatus.pinching ? 1.0 : (handStatus.detected ? 0.2 : 0.0)
force(h) == IF h.pinching THEN One ELSE IF h.detected THEN <<1, 5>> ELSE Zero

\* Mutant: the callback keeps the handStatus of the first render.
FrameHandStatusFirstRender == InitialHandStatus

\* handStatus as the useFrame callback reads it: the prop of the latest render
FrameHandStatus == handStatus

\* Mutant: the guard also waits for the camera texture.
FrameGuardVideo == simMaterial /\ displayMaterial /\ videoTexture

\* if (!simMaterial.current || !displayMaterial.current) return;
FrameGuard == simMaterial /\ displayMaterial

\* Mutant: the flag is not flipped.
NextSwapStuck(s) == s

\* swap.current = !swap.current
NextSwap(s) == ~s

\* if (videoTexture.current) uTexture.value = videoTexture.current
NextTexture == IF videoTexture THEN "videoTexture" ELSE uTexture

Buffer(name) == IF name = "fboA" THEN fboA ELSE fboB

\* Fields a render target may hold when the field-update claims are examined.
UniformField(v) == [c \in Cells |-> v]
SpikeField == [c \in Cells |-> IF c = <<0, 0>> THEN One ELSE Zero]
InitialFields == {UniformField(<<1, 2>>), SpikeField}

InitRest ==
    /\ fboB = ZeroField
    /\ swap = FALSE
    /\ simMaterial = TRUE
    /\ displayMaterial = FALSE
    /\ video = FALSE
    /\ videoTexture = FALSE
    /\ handStatus = InitialHandStatus
    /\ params = DEFAULT_PARAMS
    /\ uPrev = "null"
    /\ uMouse = <<Zero, Zero, Zero>>
    /\ uViscosity = <<49, 50>>
    /\ uRippleStrength = <<1, 2>>
    /\ uTexture = "null"
    /\ uData = "null"
    /\ uRefraction = <<1, 10>>
    /\ uDistortion = One
    /\ simTarget = "null"
    /\ camSamples = [px \in Pixels |-> {}]
    /\ ticks = 0
    /\ skipped = 0
    /\ runLen = 0
    /\ smoothstepImpl \in SmoothstepImpls
    /\ loaded = FALSE
    /\ pending = <<>>
    /\ applied = 0
    /\ lastTick = [version |-> 0, behind |-> 0]

\* The component as constructed: both render targets empty.
Init ==
    /\ fboA = ZeroField
    /\ runStart = ZeroField
    /\ InitRest

\* The field update as a function of the previous field: the first read source
\* holds any of InitialFields.
InitField ==
    /\ fboA \in InitialFields
    /\ runStart = fboA
    /\ InitRest

\* The <shaderMaterial ref={displayMaterial}> is attached.
Mount ==
    /\ ~displayMaterial
    /\ displayMaterial' = TRUE
    /\ UNCHANGED <<fboA, fboB, swap, simMaterial, video, videoTexture, handStatus,
                   params, uPrev, uMouse, uViscosity, uRippleStrength, uTexture,
                   uData, uRefraction, uDistortion, simTarget, camSamples,
                   ticks, skipped, runStart, runLen, smoothstepImpl>>
    /\ UNCHANGED <<loaded, pending, applied, lastTick>>

\* The component is rendered with a video element and its effect runs:
\* if (video && !videoTexture.current) videoTexture.current = new VideoTexture(video)
VideoReady ==
    /\ ~video
    /\ video' = TRUE
    /\ videoTexture' = TRUE
    /\ UNCHANGED <<fboA, fboB, swap, simMaterial, displayMaterial, handStatus,
                   params, uPrev, uMouse, uViscosity, uRippleStrength, uTexture,
                   uData, uRefraction, uDistortion, simTarget, camSamples,
                   ticks, skipped, runStart, runLen, smoothstepImpl>>
    /\ UNCHANGED <<loaded, pending, applied, lastTick>>

\* The component is rendered with a new handStatus prop.
SetHandStatus ==
    /\ \E h \in HandStatuses : h # handStatus /\ handStatus' = h
    /\ UNCHANGED <<fboA, fboB, swap, simMaterial, displayMaterial, video,
                   videoTexture, params, uPrev, uMouse, uViscosity, uRippleStrength,
                   uTexture, uData, uRefraction, uDistortion, simTarget, camSamples, ticks, skipped, runStart, runLen, smoothstepImpl>>
    /\ UNCHANGED <<loaded, pending, applied, lastTick>>

\* The component is rendered with a new params prop.
SetParams ==
    /\ \E p \in ParamSets : p # params /\ params' = p
    /\ UNCHANGED <<fboA, fboB, swap, simMaterial, displayMaterial, video,
                   videoTexture, handStatus, uPrev, uMouse, uViscosity,
                   uRippleStrength, uTexture, uData, uRefraction, uDistortion,
                   simTarget, camSamples, ticks, skipped, runStart, runLen,
                   smoothstepImpl>>
    /\ UNCHANGED <<loaded, pending, applied, lastTick>>

\* useFrame callback returning early.
SkipFrame ==
    /\ ~FrameGuard
    /\ skipped < MaxSkipped
    /\ skipped' = skipped + 1
    /\ UNCHANGED <<fboA, fboB, swap, simMaterial, displayMaterial, video,
                   videoTexture, handStatus, params, uPrev, uMouse, uViscosity,
                   uRippleStrength, uTexture, uData, uRefraction, uDistortion,
                   simTarget, camSamples, ticks, runStart, runLen,
                   smoothstepImpl>>
    /\ UNCHANGED <<loaded, pending, applied, lastTick>>

\* useFrame callback past its guard, followed by the frame's render of the
\* display quad, observed at the fragments of Pixels.  A draw whose target is
\* also bound as its texture is a feedback loop, which WebGL rejects without
\* drawing: the target then keeps its contents.
Tick ==
    /\ FrameGuard
    /\ ticks < MaxTicks
    /\ LET mouse == <<mouseX(FrameHandStatus), mouseY(FrameHandStatus),
                      force(FrameHandStatus)>>
           read == prevFBO(swap)
           target == currentFBO(swap)
       IN  \E written \in {IF read = target THEN Buffer(target)
                            ELSE SimPass(Buffer(read), mouse, params.viscosity,
                                         params.rippleStrength)} :
           /\ written = written      \* the pass is evaluated once, before it is sampled
           /\ uPrev' = read
           /\ uMouse' = mouse
           /\ uViscosity' = params.viscosity
           /\ uRippleStrength' = params.rippleStrength
           /\ simTarget' = target
           /\ fboA' = IF target = "fboA" THEN written ELSE fboA
           /\ fboB' = IF target = "fboB" THEN written ELSE fboB
           /\ uTexture' = NextTexture
           /\ uData' = target
           /\ uRefraction' = params.refractionIndex
           /\ uDistortion' = params.distortionStrength
           /\ swap' = NextSwap(swap)
           /\ camSamples' = [px \in Pixels |->
                                CameraSamples(written, px, params.refractionIndex,
                                              params.distortionStrength)]
           /\ IF mouse[3] = Zero /\ runLen > 0 /\ uViscosity = params.viscosity
              THEN runLen' = runLen + 1 /\ runStart' = runStart
              ELSE IF mouse[3] = Zero
              THEN runLen' = 1 /\ runStart' = Buffer(read)
              ELSE runLen' = 0 /\ runStart' = written
    /\ ticks' = ticks + 1
    /\ lastTick' = [version |-> applied, behind |-> Len(pending)]
    /\ UNCHANGED <<simMaterial, displayMaterial, video, videoTexture, handStatus,
                   params, skipped, smoothstepImpl, loaded, pending, applied>>

Next == Mount \/ VideoReady \/ SetHandStatus \/ SetParams \/ SkipFrame \/ Tick

Spec == Init /\ [][Next]_vars

SpecField == InitField /\ [][Next]_vars

\* ------------------------------------------------------------------ App
\* The application around the component: video.onloadeddata starts the
\* predict loop, predict publishes with setHandStatus, and React renders the
\* queued updates into the handStatus prop at a later time of its choosing.

\* const isPinching = pinchDist < 0.08
PinchThreshold == <<2, 25>>
\* (handSize - 0.1) * 3.3
HandSizeOffset == <<1, 10>>
HandSizeGain == <<33, 10>>

\* Landmarks of one hand as the detector reports them: thumb tip (4) and index
\* tip (8) as <<x, y, z>>, wrist (0) and middle-finger MCP (9) as <<x, y>>.
PinchingHand ==
    [thumbTip |-> <<(<<53, 100>>), (<<1, 2>>), Zero>>,
     indexTip |-> <<(<<47, 100>>), (<<1, 2>>), Zero>>,
     wrist |-> <<(<<1, 2>>), (<<9, 10>>)>>,
     middleMcp |-> <<(<<1, 2>>), (<<3, 5>>)>>]

OpenHand ==
    [thumbTip |-> <<(<<7, 24>>), (<<5, 6>>), Zero>>,
     indexTip |-> <<(<<11, 120>>), (<<5, 6>>), Zero>>,
     wrist |-> <<(<<1, 2>>), (<<9, 10>>)>>,
     middleMcp |-> <<(<<1, 2>>), (<<17, 20>>)>>]

\* results.landmarks of one detectForVideo call (numHands: 1)
DetectorResults == {<<>>, <<PinchingHand>>, <<OpenHand>>}

\* videoRef.current.currentTime when predict runs
CurrentTimes == {0, 1}

\* Math.sqrt(dx*dx + dy*dy + dz*dz)
pinchDist(l) ==
    LET dx == RSub(l.thumbTip[1], l.indexTip[1])
        dy == RSub(l.thumbTip[2], l.indexTip[2])
        dz == RSub(l.thumbTip[3], l.indexTip[3])
    IN  Sqrt(RAdd(RAdd(RMul(dx, dx), RMul(dy, dy)), RMul(dz, dz)))

isPinching(l) == RLt(pinchDist(l), PinchThreshold)

midX(l) == RDiv(RAdd(l.thumbTip[1], l.indexTip[1]), <<2, 1>>)

midY(l) == RDiv(RAdd(l.thumbTip[2], l.indexTip[2]), <<2, 1>>)

\* Math.sqrt(scaleX*scaleX + scaleY*scaleY)
handSize(l) ==
    LET scaleY == RAbs(RSub(l.wrist[2], l.middleMcp[2]))
        scaleX == RAbs(RSub(l.wrist[1], l.middleMcp[1]))
    IN  Sqrt(RAdd(RMul(scaleX, scaleX), RMul(scaleY, scaleY)))

\* Math.min(Math.max((handSize - 0.1) * 3.3, 0), 1)
normalizedDepth(l) ==
    RMin(RMax(RMul(RSub(handSize(l), HandSizeOffset), HandSizeGain), Zero), One)

\* The value predict publishes when a hand is found.
HandFound(l) ==
    [detected |-> TRUE, pinching |-> isPinching(l), distance |-> normalizedDepth(l),
     position |-> <<midX(l), midY(l)>>]

\* Mutant: the no-hand update clears only the detected flag.
NoHandKeepsPinch(prev) == [prev EXCEPT !.detected = FALSE]

\* prev => ({ ...prev, detected: false, pinching: false })
NoHand(prev) == [prev EXCEPT !.detected = FALSE, !.pinching = FALSE]

\* The argument of the setHandStatus call predict makes for a detector result:
\* a value, or the updater function NoHand (its value field is not read).
Update(results) ==
    IF Len(results) > 0
    THEN [updater |-> FALSE, value |-> HandFound(results[1])]
    ELSE [updater |-> TRUE, value |-> InitialHandStatus]

\* React computing the state of a render from the previous state and the
\* updates queued since, in the order they were queued.
ApplyUpdate(prev, u) == IF u.updater THEN NoHand(prev) ELSE u.value

RECURSIVE ApplyUpdates(_, _)
ApplyUpdates(prev, us) ==
    IF us = <<>> THEN prev
    ELSE ApplyUpdates(ApplyUpdate(prev, Head(us)), Tail(us))

\* The body of predict.  videoRef.current and landmarkerRef.current are set
\* whenever it runs: onloadeddata is installed after both are.
PredictBody ==
    \E time \in CurrentTimes, results \in DetectorResults :
        IF time > 0
        THEN /\ applied + Len(pending) < MaxPublished
             /\ pending' = Append(pending, Update(results))
        ELSE pending' = pending

\* video.onloadeddata: video.play(); setLoading(false); predict()
Loaded ==
    /\ ~loaded
    /\ loaded' = TRUE
    /\ PredictBody
    /\ UNCHANGED <<fboA, fboB, swap, simMaterial, displayMaterial, video,
                   videoTexture, handStatus, params, uPrev, uMouse, uViscosity,
                   uRippleStrength, uTexture, uData, uRefraction, uDistortion,
                   simTarget, camSamples, ticks, skipped, runStart, runLen,
                   smoothstepImpl, applied, lastTick>>

\* predict run by requestAnimationFrame
Predict ==
    /\ loaded
    /\ PredictBody
    /\ UNCHANGED <<fboA, fboB, swap, simMaterial, displayMaterial, video,
                   videoTexture, handStatus, params, uPrev, uMouse, uViscosity,
                   uRippleStrength, uTexture, uData, uRefraction, uDistortion,
                   simTarget, camSamples, ticks, skipped, runStart, runLen,
                   smoothstepImpl, loaded, applied, lastTick>>

\* React renders App after setLoading(false) or setHandStatus: the queued
\* updates become the handStatus prop, video={videoRef.current} is the mounted
\* element, and the component's effect creates the video texture.
Render ==
    /\ pending # <<>> \/ (loaded /\ ~video)
    /\ handStatus' = ApplyUpdates(handStatus, pending)
    /\ applied' = applied + Len(pending)
    /\ pending' = <<>>
    /\ video' = TRUE
    /\ videoTexture' = TRUE
    /\ UNCHANGED <<fboA, fboB, swap, simMaterial, displayMaterial, params,
                   uPrev, uMouse, uViscosity, uRippleStrength, uTexture, uData,
                   uRefraction, uDistortion, simTarget, camSamples, ticks,
                   skipped, runStart, runLen, smoothstepImpl, loaded, lastTick>>

NextApp == Mount \/ Loaded \/ Predict \/ Render \/ SkipFrame \/ Tick

\* The component inside the application: handStatus changes only as predict
\* publishes and React renders.
SpecApp == Init /\ [][NextApp]_vars

\* ============================================================== claims
\* Contents of the named render target after the step.
BufferNext(name) == IF name = "fboA" THEN fboA' ELSE fboB'

FrameRan == ticks' # ticks

IsSentinel(mouse) == mouse[1] = Sentinel /\ mouse[2] = Sentinel

RECURSIVE RPow(_, _)
RPow(a, k) == IF k = 0 THEN One ELSE RMul(a, RPow(a, k - 1))

IsUniform(f) == \A c, e \in Cells : f[c] = f[e]

NonNegative(f) == \A c \in Cells : RLe(Zero, f[c])

\* The largest value of a field.
FieldMax(f) == CHOOSE m \in {f[c] : c \in Cells} : \A c \in Cells : RLe(f[c], m)

\* C1: in every frame that runs the field update, the read source (uPrev) and
\* the render target are the two different buffers of {fboA, fboB}; the target
\* then holds the update of the read source's contents as they were before the
\* pass, and the read source is left as it was.
ReadWriteDistinct ==
    [][FrameRan =>
         /\ uPrev' # simTarget'
         /\ {uPrev', simTarget'} = {"fboA", "fboB"}
         /\ BufferNext(simTarget') =
                SimPass(Buffer(uPrev'), uMouse', uViscosity', uRippleStrength')
         /\ BufferNext(uPrev') = Buffer(uPrev')]_vars

\* Both values of the swap flag have driven a pass, and the pass wrote something.
ReadWriteDistinctWitness ==
    /\ ticks = 2
    /\ uPrev = "fboB" /\ simTarget = "fboA"
    /\ fboA # ZeroField /\ fboB # fboA

\* C2: the buffer a frame writes is the one the display samples (uData) in that
\* frame and the one the next frame reads as uPrev, the next frame overwrites
\* the other one, and nothing writes either buffer between two frames.
WrittenIsNextRead ==
    [][/\ FrameRan => /\ uData' = simTarget'
                      /\ (ticks > 0 => uPrev' = simTarget /\ simTarget' = uPrev)
       /\ ~FrameRan => fboA' = fboA /\ fboB' = fboB]_vars

WrittenIsNextReadWitness ==
    /\ ticks = 2
    /\ uData = "fboA" /\ uPrev = "fboB"
    /\ fboB # ZeroField

\* C3: every coordinate at which a display fragment samples the camera image
\* lies in [0,1] x [0,1].  Stated for the frames in which the camera texture is
\* bound, on a platform whose smoothstep evaluates the Hermite expansion (so
\* that the field sampled is the one the brush is meant to produce).
CameraSamplesInBounds ==
    (uTexture = "videoTexture" /\ smoothstepImpl = "hermite") =>
        \A px \in Pixels : \A smp \in camSamples[px] :
            /\ RLe(Zero, smp[1]) /\ RLe(smp[1], One)
            /\ RLe(Zero, smp[2]) /\ RLe(smp[2], One)

\* C4: a frame whose HandStatus has detected = false sets the disturbance to
\* the sentinel position (-1,-1) with force 0.
UndetectedGivesNoForce ==
    [][FrameRan /\ ~handStatus.detected =>
         uMouse' = <<Sentinel, Sentinel, Zero>>]_vars

\* C5 as stated: while no video texture exists a frame runs no field update and
\* does not flip the swap flag.
NoCameraSkipsFrame ==
    [][~videoTexture =>
         ticks' = ticks /\ swap' = swap /\ fboA' = fboA /\ fboB' = fboB]_vars

\* C5 amended: a frame returns early (no pass, no flip, no uniform written) only
\* while a material is not mounted; a frame without a video texture still runs
\* the field update into the write buffer and flips the flag, and only leaves
\* uTexture as it was.
FrameSkippedOnlyUnmounted ==
    [][/\ skipped' # skipped =>
            /\ ~(simMaterial /\ displayMaterial)
            /\ UNCHANGED <<fboA, fboB, swap, uPrev, uMouse, uData, uTexture>>
       /\ (FrameRan /\ ~videoTexture) =>
            /\ swap' # swap
            /\ uTexture' = uTexture
            /\ uData' = simTarget'
            /\ BufferNext(simTarget') =
                   SimPass(Buffer(uPrev'), uMouse', uViscosity', uRippleStrength')]_vars

FrameSkippedOnlyUnmountedWitness ==
    /\ ~videoTexture /\ uTexture = "null"
    /\ ticks > 0 /\ swap
    /\ fboB # ZeroField

\* C6 as stated: after k consecutive frames with force 0 and an unchanged
\* viscosity, every cell holds its value from before the run times viscosity^k.
DecayEveryCell ==
    runLen > 0 =>
        \A c \in Cells :
            Buffer(simTarget)[c] = RMul(runStart[c], RPow(uViscosity, runLen))

\* C6 amended: this holds when the field before the run is uniform (every cell
\* the same value), edge cells included.
DecayUniformField ==
    (runLen > 0 /\ IsUniform(runStart)) =>
        \A c \in Cells :
            Buffer(simTarget)[c] = RMul(runStart[c], RPow(uViscosity, runLen))

\* All 0.5 and viscosity 0.96: 0.48 after one frame, 0.4608 after two.
DecayUniformFieldWitness ==
    /\ runLen = 2
    /\ runStart = UniformField(<<1, 2>>)
    /\ uViscosity = <<24, 25>>
    /\ Buffer(uPrev) = UniformField(<<12, 25>>)
    /\ Buffer(simTarget) = UniformField(<<288, 625>>)

\* C7: a frame whose HandStatus has detected = true sets the disturbance to
\* (position.x, 1 - position.y) with force 1.0 if pinching, else 0.2, and the
\* field update of that frame uses these values and the frame's viscosity and
\* rippleStrength.
DetectedMapping ==
    [][FrameRan /\ handStatus.detected =>
         LET m == <<handStatus.position[1], RSub(One, handStatus.position[2]),
                    IF handStatus.pinching THEN One ELSE <<1, 5>> >>
         IN  /\ uMouse' = m
             /\ uViscosity' = params.viscosity
             /\ uRippleStrength' = params.rippleStrength
             /\ BufferNext(simTarget') =
                    SimPass(Buffer(uPrev'), m, params.viscosity,
                            params.rippleStrength)]_vars

\* A hovering hand at (23/120, 5/6) was mapped to (23/120, 1/6) with force 0.2.
DetectedMappingWitness ==
    /\ ticks > 0
    /\ uMouse = <<(<<23, 120>>), (<<1, 6>>), (<<1, 5>>)>>
    /\ uRippleStrength = One

Half == <<(<<1, 2>>), (<<1, 2>>)>>

BrushLocalityHermite ==
    [][smoothstepImpl = "hermite" /\ FrameRan /\ RLt(Zero, uMouse'[3]) =>
         \A c \in Cells :
             RLt(BrushRadius, distance(CellUv(c), <<uMouse'[1], uMouse'[2]>>)) =>
                 BufferNext(simTarget')[c] =
                     RMul(Smoothed(Buffer(uPrev'), CellUv(c)), uViscosity')]_vars

PinchAtCentreHermite ==
    [][(/\ smoothstepImpl = "hermite"
        /\ FrameRan
        /\ Buffer(prevFBO(swap)) = ZeroField
        /\ handStatus.detected /\ handStatus.pinching /\ handStatus.position = Half
        /\ params.rippleStrength = One) =>
         \A c \in Cells :
             /\ CellUv(c) = Half => BufferNext(simTarget')[c] = params.viscosity
             /\ RLt(BrushRadius, distance(CellUv(c), Half)) =>
                    BufferNext(simTarget')[c] = Zero]_vars

MaxDecaysHermite ==
    [][(/\ smoothstepImpl = "hermite"
        /\ FrameRan
        /\ uMouse'[3] = Zero \/ IsSentinel(uMouse')
        /\ RLe(Zero, uViscosity') /\ RLt(uViscosity', One)
        /\ NonNegative(Buffer(uPrev'))) =>
         RLe(FieldMax(BufferNext(simTarget')),
             RMul(uViscosity', FieldMax(Buffer(uPrev'))))]_vars

\* ------------------------------------------------------ application claims
Mouse(h) == <<mouseX(h), mouseY(h), force(h)>>

\* The state all setHandStatus calls made so far amount to.
LatestPublished == ApplyUpdates(handStatus, pending)

\* C11 (as stated): every pass of the frame loop uses the HandStatus most
\* recently published by predict.
TickUsesLatestPublished ==
    [][FrameRan => uMouse' = Mouse(LatestPublished)]_vars

\* C11 (amended): no step of predict or of React closes the frame guard, so a
\* frame never waits for them; a pass uses the HandStatus of the latest
\* render, which is never older than the one the previous pass used and gives
\* the same uMouse when no render came in between; and a render delivers the
\* result of every update published before it, leaving nothing queued.
TickUsesLatestRendered ==
    [][/\ FrameGuard => FrameGuard'
       /\ FrameRan =>
            /\ uMouse' = Mouse(handStatus)
            /\ lastTick'.version = applied
            /\ lastTick'.version >= lastTick.version
            /\ (ticks > 0 /\ lastTick'.version = lastTick.version
                   => uMouse' = uMouse)
       /\ applied' # applied =>
            /\ handStatus' = LatestPublished
            /\ pending' = <<>>]_vars

\* Two passes have run, the last one on a value predict published, while a
\* newer update was still queued.
TickUsesLatestRenderedWitness ==
    /\ ticks = 2
    /\ lastTick.version > 0
    /\ lastTick.behind > 0
    /\ uMouse = Mouse(handStatus)
    /\ uMouse # Mouse(LatestPublished)

PinchImpliesDetected(h) == h.pinching => h.detected

\* C12: the initial HandStatus, every state a queued update leads to and every
\* rendered handStatus satisfy pinching => detected; and a pass that runs
\* while no hand is detected injects force 0.
HeldPinchImpliesDetected ==
    /\ [](\A k \in 0..Len(pending) :
             PinchImpliesDetected(ApplyUpdates(handStatus, SubSeq(pending, 1, k))))
    /\ [][FrameRan /\ ~handStatus.detected => uMouse'[3] = Zero]_vars

\* A pinching hand was published, then a no-hand result; both are rendered and
\* a pass has run on the result.
HeldPinchImpliesDetectedWitness ==
    /\ applied = 2
    /\ ~handStatus.detected
    /\ handStatus.distance = normalizedDepth(PinchingHand)
    /\ ticks > 0
    /\ lastTick.version = applied
    /\ uMouse[3] = Zero

====
